---- MODULE Spec2Model ----
(***************************************************************************)
(* The debate turn-state machine of app.py: the session state kept in      *)
(* st.session_state, the handlers of the debate page (topic form, stop     *)
(* button, auto-debate step, opinion form), the settings page slider and   *)
(* the sidebar navigation.  One script run of the Streamlit page is one    *)
(* action, except the auto-debate step, which is split at the blocking     *)
(* backend call made inside generate_response.                             *)
(* Japanese literals of the source are written in ASCII.                   *)
(***************************************************************************)
EXTENDS Integers, Sequences, FiniteSets, TLC

\* ---------------------------------------------------------------- bounds
\* Longest transcript explored; appends are disabled beyond it.
MaxHistory == 8
\* Upper end of the max_rounds slider explored (the source allows up to 10).
MaxRoundsBound == 3

\* ------------------------------------------------------- program constants
\* defaults["max_rounds"]
DEFAULT_MAX_ROUNDS == 3
\* st.slider(min_value=1, ...)
SLIDER_MIN == 1
\* history[-6:]
CONTEXT_WINDOW == 6
\* the text returned by generate_response when the backend raises
SENTINEL == "(thought interrupted)"
\* the "name" of every user turn
OBSERVER == "observer"
DEFAULT_MODEL_LABEL == "Gemini 2.5 Flash"
AVAILABLE_MODELS ==
    [l \in {"Gemini 2.5 Flash", "Gemini 2.5 Pro", "Gemini 3 Flash"} |->
        CASE l = "Gemini 2.5 Flash" -> "gemini-2.5-flash"
          [] l = "Gemini 2.5 Pro"   -> "gemini-2.5-pro"
          [] l = "Gemini 3 Flash"   -> "gemini-3-flash"]
DEFAULT_PERSONA_A == "You are a cold logician."
DEFAULT_PERSONA_B == "You are a compassionate Theravada elder."
DEFAULT_NAME_A == "logician"
DEFAULT_NAME_B == "elder"

\* ------------------------------------------------------------------ inputs
\* Texts typed into the topic form ("" is an empty submission).
TopicInputs == {"", "X"}
\* Texts typed into the opinion form.
OpinionInputs == {"", "O"}
\* Texts the backend returns when it succeeds.
ReplyTexts == {"R"}
Pages == {"debate", "persona_a", "persona_b", "settings"}

VARIABLES
    page,                 \* st.session_state.page
    chat_history,         \* st.session_state.chat_history
    is_debating,          \* st.session_state.is_debating
    debate_finished,      \* st.session_state.debate_finished
    topic,                \* st.session_state.topic
    max_rounds,           \* st.session_state.max_rounds
    current_round_start,  \* st.session_state.current_round_start (0-based)
    persona_a_name, persona_a_text, persona_a_model,
    persona_b_name, persona_b_text, persona_b_model,
    call,                 \* <<>> or <<c>>: the backend call in flight
    rounds_changed,       \* history: max_rounds was changed during this round
    event                 \* history: the handler that ran last and its input

personas == <<persona_a_name, persona_a_text, persona_a_model,
              persona_b_name, persona_b_text, persona_b_model>>
session == <<chat_history, is_debating, debate_finished, topic,
             current_round_start>>
vars == <<page, chat_history, is_debating, debate_finished, topic, max_rounds,
          current_round_start, personas, call, rounds_changed, event>>

\* --------------------------------------------------------------- helpers
Ev(op, arg) == [op |-> op, arg |-> arg]

\* msg.get("name", msg["role"])
MsgName(msg) == IF "name" \in DOMAIN msg THEN msg.name ELSE msg.role

\* Variant: history[:n], the first n elements instead of the last n.
LastNFromFront(history, n) ==
    SubSeq(history, 1, IF Len(history) > n THEN n ELSE Len(history))

\* history[-n:] of Python: the last n elements, or all of them if fewer
LastN(history, n) ==
    SubSeq(history, IF Len(history) > n THEN Len(history) - n + 1 ELSE 1,
           Len(history))

\* The lines that the loop of generate_response concatenates into
\* context_str, one "<name>: <content>\n" line per message, in loop order.
BuildContext(history) ==
    LET tail == LastN(history, CONTEXT_WINDOW)
    IN  [i \in 1..Len(tail) |-> MsgName(tail[i]) \o ": " \o tail[i].content]

\* len([m for m in chat_history if m["role"] == "assistant"])
AiTurnCount(history) ==
    Cardinality({i \in 1..Len(history) : history[i].role = "assistant"})

\* Variant: the seed turn of the round is counted as a turn of the round.
TurnsSinceStartCountingSeed == Len(chat_history) - current_round_start

\* len(chat_history) - 1 - current_round_start
TurnsSinceStart == Len(chat_history) - 1 - current_round_start
MaxTurns == max_rounds * 2

\* Variant: user messages are not excluded from the parity count.
CurrentSpeakerFromLength(history) ==
    IF Len(history) % 2 = 0
    THEN [role_name |-> persona_a_name, persona |-> persona_a_text,
          model |-> persona_a_model]
    ELSE [role_name |-> persona_b_name, persona |-> persona_b_text,
          model |-> persona_b_model]

\* Variant: the parity of the turns of the current round decides.
CurrentSpeakerByRound(history) ==
    IF (Len(history) - 1 - current_round_start) % 2 = 0
    THEN [role_name |-> persona_a_name, persona |-> persona_a_text,
          model |-> persona_a_model]
    ELSE [role_name |-> persona_b_name, persona |-> persona_b_text,
          model |-> persona_b_model]

\* The persona chosen by the parity test of the step.
CurrentSpeaker(history) ==
    IF AiTurnCount(history) % 2 = 0
    THEN [role_name |-> persona_a_name, persona |-> persona_a_text,
          model |-> persona_a_model]
    ELSE [role_name |-> persona_b_name, persona |-> persona_b_text,
          model |-> persona_b_model]

\* Variant: turns_since_start <= max_turns
BudgetLeftInclusive == TurnsSinceStart <= MaxTurns

\* The budget test of the step: turns_since_start < max_turns
BudgetLeft == TurnsSinceStart < MaxTurns

\* Variant: the text of the form is not tested.
TruthyAlways(text) == TRUE

\* Truth value of a str in "if submitted and user_topic" and in
\* "if continue_debate and user_opinion": the empty string is false.
Truthy(text) == text # ""

\* Variant: the form is rendered whenever no debate is running.
TopicFormShownAfterDebate == ~is_debating

\* The topic form is rendered: not is_debating and not debate_finished
TopicFormShown == ~is_debating /\ ~debate_finished

\* The opinion form is rendered: debate_finished and not is_debating
OpinionFormShown == debate_finished /\ ~is_debating

\* f"Theme: <user_topic> ..." of the topic form
TopicStatement(user_topic) == "Topic: " \o user_topic

\* ------------------------------------------------------------------- Init
Init ==
    /\ page = "debate"
    /\ chat_history = <<>>
    /\ is_debating = FALSE
    /\ debate_finished = FALSE
    /\ topic = ""
    /\ max_rounds = DEFAULT_MAX_ROUNDS
    /\ current_round_start = 0
    /\ persona_a_name = DEFAULT_NAME_A
    /\ persona_a_text = DEFAULT_PERSONA_A
    /\ persona_a_model = DEFAULT_MODEL_LABEL
    /\ persona_b_name = DEFAULT_NAME_B
    /\ persona_b_text = DEFAULT_PERSONA_B
    /\ persona_b_model = DEFAULT_MODEL_LABEL
    /\ call = <<>>
    /\ rounds_changed = FALSE
    /\ event = Ev("init", "")

\* ---------------------------------------------------------------- actions
\* Sidebar buttons: switch the page and rerun.
Navigate(p) ==
    /\ call = <<>>
    /\ page' = p
    /\ event' = Ev("navigate", "")
    /\ UNCHANGED <<session, max_rounds, personas, call, rounds_changed>>

\* Variant: the debate is started without the seed turn.
SubmitTopicWithoutSeed(user_topic) ==
    /\ call = <<>>
    /\ page = "debate"
    /\ TopicFormShown
    /\ event' = Ev("start", user_topic)
    /\ IF Truthy(user_topic)
       THEN /\ topic' = user_topic
            /\ chat_history' = <<>>
            /\ is_debating' = TRUE
            /\ debate_finished' = FALSE
            /\ current_round_start' = 0
            /\ rounds_changed' = FALSE
       ELSE UNCHANGED <<session, rounds_changed>>
    /\ UNCHANGED <<page, max_rounds, personas, call>>

\* Topic form of the debate page, submitted with the text user_topic.
SubmitTopic(user_topic) ==
    /\ call = <<>>
    /\ page = "debate"
    /\ TopicFormShown
    /\ event' = Ev("start", user_topic)
    /\ IF Truthy(user_topic)
       THEN /\ topic' = user_topic
            /\ chat_history' = <<[role |-> "user", name |-> OBSERVER,
                                  content |-> TopicStatement(user_topic)]>>
            /\ is_debating' = TRUE
            /\ debate_finished' = FALSE
            /\ current_round_start' = 0
            /\ rounds_changed' = FALSE
       ELSE UNCHANGED <<session, rounds_changed>>
    /\ UNCHANGED <<page, max_rounds, personas, call>>

\* Variant: the stop button marks the debate finished but leaves it running.
InterruptKeepsDebating ==
    /\ call = <<>>
    /\ page = "debate"
    /\ is_debating
    /\ debate_finished' = TRUE
    /\ event' = Ev("interrupt", "")
    /\ UNCHANGED <<page, chat_history, is_debating, topic, max_rounds,
                   current_round_start, personas, call, rounds_changed>>

\* Stop button of the debate page.
Interrupt ==
    /\ call = <<>>
    /\ page = "debate"
    /\ is_debating
    /\ is_debating' = FALSE
    /\ debate_finished' = TRUE
    /\ event' = Ev("interrupt", "")
    /\ UNCHANGED <<page, chat_history, topic, max_rounds, current_round_start,
                   personas, call, rounds_changed>>

\* Auto-debate step, first half: the budget test passes, the speaker is
\* chosen and generate_response builds its prompt and calls the backend.
StepCall ==
    /\ call = <<>>
    /\ page = "debate"
    /\ is_debating
    /\ BudgetLeft
    /\ Len(chat_history) < MaxHistory
    /\ LET speaker == CurrentSpeaker(chat_history)
       IN  call' = <<[role_name |-> speaker.role_name,
                      persona   |-> speaker.persona,
                      model_id  |-> AVAILABLE_MODELS[speaker.model],
                      context   |-> BuildContext(chat_history),
                      prompt_text |->
                          chat_history[Len(chat_history)].content]>>
    /\ event' = Ev("generate", "")
    /\ UNCHANGED <<page, session, max_rounds, personas, rounds_changed>>

\* Variant: a failed call appends nothing, so that the step is tried again.
StepReturnDropsFailure(outcome, text) ==
    /\ call # <<>>
    /\ IF outcome = "ok"
       THEN chat_history' = Append(chat_history,
                                   [role |-> "assistant",
                                    name |-> call[1].role_name,
                                    content |-> text])
       ELSE UNCHANGED chat_history
    /\ call' = <<>>
    /\ event' = Ev("append", outcome)
    /\ UNCHANGED <<page, is_debating, debate_finished, topic, max_rounds,
                   current_round_start, personas, rounds_changed>>

\* Variant: the reply replaces the last turn instead of being appended.
StepReturnOverwritesLast(outcome, text) ==
    /\ call # <<>>
    /\ LET response_text == IF outcome = "ok" THEN text ELSE SENTINEL
       IN  chat_history' = [chat_history EXCEPT ![Len(chat_history)] =
                               [role |-> "assistant",
                                name |-> call[1].role_name,
                                content |-> response_text]]
    /\ call' = <<>>
    /\ event' = Ev("append", outcome)
    /\ UNCHANGED <<page, is_debating, debate_finished, topic, max_rounds,
                   current_round_start, personas, rounds_changed>>

\* Auto-debate step, second half: the backend returns text (outcome "ok")
\* or raises (outcome "error"); the result is appended and the page reruns.
StepReturn(outcome, text) ==
    /\ call # <<>>
    /\ LET response_text == IF outcome = "ok" THEN text ELSE SENTINEL
       IN  chat_history' = Append(chat_history,
                                  [role |-> "assistant",
                                   name |-> call[1].role_name,
                                   content |-> response_text])
    /\ call' = <<>>
    /\ event' = Ev("append", outcome)
    /\ UNCHANGED <<page, is_debating, debate_finished, topic, max_rounds,
                   current_round_start, personas, rounds_changed>>

\* Variant: the finishing step marks the debate finished but forgets to
\* clear is_debating.
StepFinishKeepsDebating ==
    /\ call = <<>>
    /\ page = "debate"
    /\ is_debating
    /\ ~BudgetLeft
    /\ ~debate_finished
    /\ debate_finished' = TRUE
    /\ event' = Ev("finish", "")
    /\ UNCHANGED <<page, chat_history, is_debating, topic, max_rounds,
                   current_round_start, personas, call, rounds_changed>>

\* Auto-debate step when the round budget is used up.
StepFinish ==
    /\ call = <<>>
    /\ page = "debate"
    /\ is_debating
    /\ ~BudgetLeft
    /\ is_debating' = FALSE
    /\ debate_finished' = TRUE
    /\ event' = Ev("finish", "")
    /\ UNCHANGED <<page, chat_history, topic, max_rounds, current_round_start,
                   personas, call, rounds_changed>>

\* Variant: the round start is computed before the opinion is appended.
ResumeStaleRoundStart(user_opinion) ==
    /\ call = <<>>
    /\ page = "debate"
    /\ OpinionFormShown
    /\ event' = Ev("resume", user_opinion)
    /\ IF Truthy(user_opinion)
       THEN /\ Len(chat_history) < MaxHistory
            /\ chat_history' = Append(chat_history,
                                      [role |-> "user", name |-> OBSERVER,
                                       content |-> user_opinion])
            /\ current_round_start' = Len(chat_history) - 1
            /\ is_debating' = TRUE
            /\ debate_finished' = FALSE
            /\ rounds_changed' = FALSE
            /\ UNCHANGED topic
       ELSE UNCHANGED <<session, rounds_changed>>
    /\ UNCHANGED <<page, max_rounds, personas, call>>

\* Opinion form of the finished debate, submitted with its "continue"
\* button and the text user_opinion: the debate resumes.
Resume(user_opinion) ==
    /\ call = <<>>
    /\ page = "debate"
    /\ OpinionFormShown
    /\ event' = Ev("resume", user_opinion)
    /\ IF Truthy(user_opinion)
       THEN /\ Len(chat_history) < MaxHistory
            /\ chat_history' = Append(chat_history,
                                      [role |-> "user", name |-> OBSERVER,
                                       content |-> user_opinion])
            /\ current_round_start' = Len(chat_history') - 1
            /\ is_debating' = TRUE
            /\ debate_finished' = FALSE
            /\ rounds_changed' = FALSE
            /\ UNCHANGED topic
       ELSE UNCHANGED <<session, rounds_changed>>
    /\ UNCHANGED <<page, max_rounds, personas, call>>

\* Variant: the reset forgets to clear current_round_start.
NewTopicKeepsRoundStart(user_opinion) ==
    /\ call = <<>>
    /\ page = "debate"
    /\ OpinionFormShown
    /\ event' = Ev("reset", user_opinion)
    /\ chat_history' = <<>>
    /\ topic' = ""
    /\ debate_finished' = FALSE
    /\ rounds_changed' = FALSE
    /\ UNCHANGED <<page, is_debating, current_round_start, max_rounds,
                   personas, call>>

\* Opinion form of the finished debate, submitted with its "new topic"
\* button (whatever text user_opinion it holds): reset.
NewTopic(user_opinion) ==
    /\ call = <<>>
    /\ page = "debate"
    /\ OpinionFormShown
    /\ event' = Ev("reset", user_opinion)
    /\ chat_history' = <<>>
    /\ topic' = ""
    /\ debate_finished' = FALSE
    /\ current_round_start' = 0
    /\ rounds_changed' = FALSE
    /\ UNCHANGED <<page, is_debating, max_rounds, personas, call>>

\* Settings page: the slider is moved to new_rounds.
PageSettings(new_rounds) ==
    /\ call = <<>>
    /\ page = "settings"
    /\ IF new_rounds # max_rounds
       THEN /\ max_rounds' = new_rounds
            /\ rounds_changed' = (rounds_changed \/ is_debating)
       ELSE UNCHANGED <<max_rounds, rounds_changed>>
    /\ event' = Ev("settings", "")
    /\ UNCHANGED <<page, session, personas, call>>

\* Persona page of persona_key ("a" or "b"), form submitted with "save" or
\* "reset".  The form is submitted with its fields as shown: each field is
\* pre-filled with the current value (value=current_name, index of
\* current_model, value=current_text).
PagePersona(persona_key, button) ==
    /\ call = <<>>
    /\ page = "persona_" \o persona_key
    /\ LET default_name == IF persona_key = "a" THEN DEFAULT_NAME_A
                                                ELSE DEFAULT_NAME_B
           default_text == IF persona_key = "a" THEN DEFAULT_PERSONA_A
                                                ELSE DEFAULT_PERSONA_B
           new_name  == IF persona_key = "a" THEN persona_a_name
                                             ELSE persona_b_name
           new_text  == IF persona_key = "a" THEN persona_a_text
                                             ELSE persona_b_text
           new_model == IF persona_key = "a" THEN persona_a_model
                                             ELSE persona_b_model
           name  == IF button = "save" THEN new_name ELSE default_name
           text  == IF button = "save" THEN new_text ELSE default_text
           model == IF button = "save" THEN new_model ELSE DEFAULT_MODEL_LABEL
       IN  IF persona_key = "a"
           THEN /\ persona_a_name' = name
                /\ persona_a_text' = text
                /\ persona_a_model' = model
                /\ UNCHANGED <<persona_b_name, persona_b_text,
                               persona_b_model>>
           ELSE /\ persona_b_name' = name
                /\ persona_b_text' = text
                /\ persona_b_model' = model
                /\ UNCHANGED <<persona_a_name, persona_a_text,
                               persona_a_model>>
    /\ event' = Ev("persona", button)
    /\ UNCHANGED <<page, session, max_rounds, call, rounds_changed>>

Next ==
    \/ \E p \in Pages : Navigate(p)
    \/ \E t \in TopicInputs : SubmitTopic(t)
    \/ Interrupt
    \/ StepCall
    \/ \E o \in {"ok", "error"}, t \in ReplyTexts : StepReturn(o, t)
    \/ StepFinish
    \/ \E o \in OpinionInputs : Resume(o)
    \/ \E o \in OpinionInputs : NewTopic(o)
    \/ \E r \in SLIDER_MIN..MaxRoundsBound : PageSettings(r)
    \/ \E k \in {"a", "b"}, b \in {"save", "reset"} : PagePersona(k, b)

Spec == Init /\ [][Next]_vars

\* The debate page kept in front while a debate runs, with max_rounds left
\* alone during it: the sidebar and the settings slider are used only while
\* no debate is running.  A round is opened only if the explored transcript
\* length has room for its seed and its max_rounds * 2 turns.
LiveNext ==
    \/ \E p \in Pages : ~is_debating /\ Navigate(p)
    \/ \E r \in SLIDER_MIN..MaxRoundsBound : ~is_debating /\ PageSettings(r)
    \/ \E t \in TopicInputs : 1 + MaxTurns <= MaxHistory /\ SubmitTopic(t)
    \/ Interrupt
    \/ StepCall
    \/ \E o \in {"ok", "error"}, t \in ReplyTexts : StepReturn(o, t)
    \/ StepFinish
    \/ \E o \in OpinionInputs :
           Len(chat_history) + 1 + MaxTurns <= MaxHistory /\ Resume(o)
    \/ \E o \in OpinionInputs : NewTopic(o)

\* Every branch of the step ends in st.rerun(), and the router runs
\* page_debate again as long as the page is the debate page; the backend
\* call returns or raises.
LiveSpec ==
    /\ Init
    /\ [][LiveNext]_vars
    /\ WF_vars(StepCall)
    /\ WF_vars(\E o \in {"ok", "error"}, t \in ReplyTexts : StepReturn(o, t))
    /\ WF_vars(StepFinish)

TypeOK ==
    /\ page \in Pages
    /\ is_debating \in BOOLEAN
    /\ debate_finished \in BOOLEAN
    /\ max_rounds \in SLIDER_MIN..MaxRoundsBound
    /\ Len(chat_history) <= MaxHistory
    /\ Len(call) <= 1

\* ================================================================ claims
\* Number of assistant turns at the 0-based positions from..to-1 of history.
AssistantTurnsBetween(history, from, to) ==
    Cardinality({k \in (from + 1)..to : history[k].role = "assistant"})
\* Number of assistant turns located after the 0-based position idx.
AssistantTurnsAfter(history, idx) ==
    AssistantTurnsBetween(history, idx + 1, Len(history))
Min(a, b) == IF a < b THEN a ELSE b
LastTurn(history) == history[Len(history)]

C2_FinishAfterExactBudget ==
    [][event'.op = "finish"
       => /\ is_debating /\ ~debate_finished
          /\ ~is_debating' /\ debate_finished'
          /\ chat_history' = chat_history
          /\ call' = <<>>
          /\ AssistantTurnsAfter(chat_history, current_round_start)
               >= 2 * max_rounds
          /\ ~rounds_changed
             => /\ AssistantTurnsAfter(chat_history, current_round_start)
                     = 2 * max_rounds
                /\ chat_history[current_round_start + 1].role = "user"
                /\ Len(chat_history)
                     = current_round_start + 1 + 2 * max_rounds]_vars

\* A round opened by a resume ran to its full budget and was finished.
C2_Witness ==
    /\ event.op = "finish"
    /\ ~rounds_changed
    /\ current_round_start > 0
    /\ AssistantTurnsAfter(chat_history, current_round_start) = 2 * max_rounds

\* C3: the stop button is taken only in Debating with no backend call in
\* flight; it moves the lifecycle to Finished and leaves the transcript as
\* it is.  While the lifecycle is not Debating no backend call is made and
\* no assistant turn is appended: only a resume or a start re-enters
\* Debating.  A backend call in flight is followed by nothing but the
\* append of its result.
C3_InterruptStopsGeneration ==
    [][/\ event'.op = "interrupt"
          => /\ is_debating /\ call = <<>>
             /\ ~is_debating' /\ debate_finished'
             /\ chat_history' = chat_history
             /\ current_round_start' = current_round_start
             /\ call' = <<>>
       /\ ~is_debating
          => /\ call' = <<>>
             /\ event'.op \notin {"generate", "append"}
             /\ AiTurnCount(chat_history') <= AiTurnCount(chat_history)
             /\ is_debating' => event'.op \in {"resume", "start"}
       /\ call # <<>> => event'.op = "append"]_vars

\* The debate was interrupted after k assistant turns, 0 < k < 2R.
C3_Witness ==
    /\ event.op = "interrupt"
    /\ debate_finished /\ ~is_debating
    /\ AssistantTurnsAfter(chat_history, current_round_start) > 0
    /\ AssistantTurnsAfter(chat_history, current_round_start) < 2 * max_rounds

\* C4: resume with a non-empty opinion is taken in Finished; it appends one
\* user turn carrying the opinion, keeps every earlier turn, sets
\* round_start_index to the index of the appended turn and enters Debating.
C4_ResumeAppendsOpinion ==
    [][(event'.op = "resume" /\ event'.arg # "")
       => /\ debate_finished /\ ~is_debating
          /\ Len(chat_history') = Len(chat_history) + 1
          /\ SubSeq(chat_history', 1, Len(chat_history)) = chat_history
          /\ LastTurn(chat_history').role = "user"
          /\ LastTurn(chat_history').content = event'.arg
          /\ current_round_start' = Len(chat_history') - 1
          /\ is_debating' /\ ~debate_finished'
          /\ topic' = topic]_vars

\* A debate resumed with an opinion after a round that produced turns.
C4_Witness ==
    /\ event.op = "resume" /\ event.arg # ""
    /\ is_debating
    /\ current_round_start > 1
    /\ LastTurn(chat_history).content = event.arg

\* C5: the "new topic" action yields an empty transcript, an empty topic,
\* round_start_index 0 and lifecycle Idle, whatever state it is taken from.
C5_ResetYieldsIdle ==
    [][event'.op = "reset"
       => /\ chat_history' = <<>>
          /\ topic' = ""
          /\ current_round_start' = 0
          /\ ~is_debating' /\ ~debate_finished'
          /\ call' = <<>>]_vars

\* A reset was taken (here with a text typed into the opinion field).
C5_Witness ==
    /\ event.op = "reset" /\ event.arg # ""
    /\ chat_history = <<>>
    /\ max_rounds # DEFAULT_MAX_ROUNDS

\* C6: when the backend call fails, the sentinel text is appended as an
\* assistant turn under the name of the persona the call was made for, the
\* lifecycle stays Debating, the turn counts toward the round budget and
\* the speaker the next step would choose is the other persona.
C6_FailedTurnCounts ==
    [][(event'.op = "append" /\ event'.arg = "error")
       => /\ call # <<>>
          /\ chat_history' = Append(chat_history,
                                    [role |-> "assistant",
                                     name |-> call[1].role_name,
                                     content |-> SENTINEL])
          /\ call[1].role_name = IF call[1].persona = persona_a_text
                                 THEN persona_a_name ELSE persona_b_name
          /\ is_debating /\ is_debating' /\ ~debate_finished'
          /\ AssistantTurnsAfter(chat_history', current_round_start')
               = AssistantTurnsAfter(chat_history, current_round_start) + 1
          /\ CurrentSpeaker(chat_history').persona # call[1].persona]_vars

\* A failed call left the sentinel as the last turn of the transcript.
C6_Witness ==
    /\ event.op = "append" /\ event.arg = "error"
    /\ LastTurn(chat_history).content = SENTINEL
    /\ LastTurn(chat_history).name = persona_b_name
    /\ is_debating

\* C7 (as stated): in every Debating state the number of assistant turns
\* after round_start_index is at most max_rounds * 2, also when max_rounds
\* is changed on the settings page while the debate is active.
C7_BudgetNeverExceeded ==
    is_debating
    => AssistantTurnsAfter(chat_history, current_round_start) <= max_rounds * 2

\* C7 (amended): in a Debating state the number of assistant turns after
\* round_start_index is at most max_rounds * 2 as long as max_rounds was not
\* changed during the round; whatever the settings page did, a backend call
\* is made only while the number is below max_rounds * 2, an appended turn
\* never takes it above max_rounds * 2, and once it has reached or passed
\* max_rounds * 2 the step of the debate page generates nothing and moves
\* the lifecycle to Finished.
C7_BudgetRespectedByStep ==
    LET n == AssistantTurnsAfter(chat_history, current_round_start)
    IN  /\ (is_debating /\ ~rounds_changed) => n <= max_rounds * 2
        /\ call # <<>> => n < max_rounds * 2
        /\ event.op = "append" => n <= max_rounds * 2
        /\ (is_debating /\ call = <<>> /\ page = "debate"
              /\ n >= max_rounds * 2)
           => (~ENABLED StepCall /\ ENABLED StepFinish)

\* A Debating state on the debate page whose round holds more assistant
\* turns than the lowered max_rounds allows: the next step finishes it.
C7_Witness ==
    /\ is_debating /\ call = <<>> /\ page = "debate"
    /\ rounds_changed
    /\ AssistantTurnsAfter(chat_history, current_round_start) > max_rounds * 2

\* C8: the topic form submitted empty in Idle, and the opinion form
\* submitted empty with "continue" in Finished, change nothing of the
\* transcript, topic, round_start_index and lifecycle, and start no call.
C8_EmptyInputIgnored ==
    [][(event'.op \in {"start", "resume"} /\ event'.arg = "")
       => /\ event'.op = "start" => (~is_debating /\ ~debate_finished)
          /\ event'.op = "resume" => (~is_debating /\ debate_finished)
          /\ chat_history' = chat_history
          /\ topic' = topic
          /\ current_round_start' = current_round_start
          /\ is_debating' = is_debating
          /\ debate_finished' = debate_finished
          /\ call' = <<>>]_vars

\* An empty opinion was submitted on a finished debate.
C8_Witness ==
    /\ event.op = "resume" /\ event.arg = ""
    /\ debate_finished /\ ~is_debating
    /\ Len(chat_history) > 1

\* C9: the context of a backend call is the last min(6, length) turns of
\* the transcript in their order, each rendered "<name>: <content>", and
\* never more than 6 of them.
C9_ContextIsLastSixTurns ==
    call # <<>>
    => LET context == call[1].context
           n == Min(6, Len(chat_history))
       IN  /\ Len(context) = n
           /\ Len(context) <= 6
           /\ \A i \in 1..n :
                 context[i] =
                   chat_history[Len(chat_history) - n + i].name \o ": " \o
                   chat_history[Len(chat_history) - n + i].content

\* A call made on a transcript of more than 6 turns, in a resumed round.
C9_Witness ==
    /\ call # <<>>
    /\ Len(chat_history) > 6
    /\ current_round_start > 0
    /\ Len(call[1].context) = 6

\* C10: the topic form is submitted only in Idle; with a non-empty topic it
\* leaves a transcript of exactly one user turn carrying the topic
\* statement, round_start_index 0 and lifecycle Debating.
C10_StartSeedsTranscript ==
    [][event'.op = "start"
       => /\ ~is_debating /\ ~debate_finished
          /\ event'.arg # ""
             => /\ Len(chat_history') = 1
                /\ chat_history'[1] = [role |-> "user", name |-> "observer",
                                        content |-> "Topic: " \o event'.arg]
                /\ topic' = event'.arg
                /\ current_round_start' = 0
                /\ is_debating' /\ ~debate_finished']_vars

\* A debate was started on a topic after an earlier one was reset.
C10_Witness ==
    /\ event.op = "start" /\ event.arg # ""
    /\ is_debating
    /\ Len(chat_history) = 1
    /\ max_rounds # DEFAULT_MAX_ROUNDS

\* C11: every step either leaves the transcript as it is, appends exactly
\* one turn at its end (keeping every earlier turn), or replaces it in full:
\* by the empty transcript (reset) or by the one seed turn (start).  The
\* stop button, the finishing step, a rejected empty input, the persona
\* pages, the settings page and the navigation leave it as it is.
C11_AppendOrFullReset ==
    [][/\ \/ chat_history' = chat_history
          \/ /\ Len(chat_history') = Len(chat_history) + 1
             /\ SubSeq(chat_history', 1, Len(chat_history)) = chat_history
             /\ event'.op \in {"append", "resume", "start"}
          \/ /\ event'.op = "reset"
             /\ chat_history' = <<>>
          \/ /\ event'.op = "start"
             /\ Len(chat_history') = 1
       /\ event'.op \in {"interrupt", "finish", "persona", "settings",
                         "navigate", "generate"}
          => chat_history' = chat_history
       /\ (event'.op \in {"start", "resume"} /\ event'.arg = "")
          => chat_history' = chat_history]_vars

\* A reply was appended to a transcript that already held a resumed round.
C11_Witness ==
    /\ event.op = "append"
    /\ current_round_start > 0
    /\ Len(chat_history) >= current_round_start + 3

\* C12: round_start_index is between 0 and the length of the transcript,
\* both included, in every reachable state.
C12_RoundStartWithinTranscript ==
    /\ current_round_start >= 0
    /\ current_round_start <= Len(chat_history)

\* A round opened by a resume (round start moved forward) has produced
\* turns and is over.
C12_Witness ==
    /\ current_round_start > 0
    /\ Len(chat_history) > current_round_start + 1
    /\ debate_finished

\* C13: is_debating and debate_finished are never both true, so exactly one
\* of Idle, Debating, Finished holds; a backend call is in flight, or was
\* just issued, only in Debating; and in Debating, on the debate page with
\* no call in flight, neither form is shown and the step either generates
\* the next turn or ends the round, never both.
C13_LifecycleExclusive ==
    /\ ~(is_debating /\ debate_finished)
    /\ call # <<>> => (is_debating /\ ~debate_finished /\ page = "debate")
    /\ event.op = "generate" => (is_debating /\ call # <<>>)
    /\ (is_debating /\ call = <<>> /\ page = "debate")
       => /\ ~(ENABLED StepCall /\ ENABLED StepFinish)
          /\ (Len(chat_history) - 1 - current_round_start < max_rounds * 2)
             => ~ENABLED StepFinish
          /\ (Len(chat_history) - 1 - current_round_start >= max_rounds * 2)
             => (ENABLED StepFinish /\ ~ENABLED StepCall)
          /\ ~ENABLED SubmitTopic("X")
          /\ ~ENABLED Resume("O")
          /\ ~ENABLED NewTopic("")

\* A backend call in flight in a round that was resumed.
C13_Witness ==
    /\ call # <<>>
    /\ is_debating /\ ~debate_finished
    /\ current_round_start > 0

\* C15: in every Debating state the transcript is non-empty, the turn at
\* round_start_index is a user turn and every turn after it is an assistant
\* turn; so len(chat_history) - 1 - current_round_start is the number of
\* assistant turns since round_start_index, and a backend call in flight
\* was given the content of an existing last turn.
C15_RoundShape ==
    is_debating
    => /\ Len(chat_history) >= 1
       /\ current_round_start + 1 \in 1..Len(chat_history)
       /\ chat_history[current_round_start + 1].role = "user"
       /\ \A k \in (current_round_start + 2)..Len(chat_history) :
             chat_history[k].role = "assistant"
       /\ Len(chat_history) - 1 - current_round_start
            = Cardinality({k \in (current_round_start + 2)..Len(chat_history) :
                             chat_history[k].role = "assistant"})
       /\ call # <<>>
          => call[1].prompt_text = chat_history[Len(chat_history)].content

\* A call in flight in a resumed round, prompted with an assistant turn.
C15_Witness ==
    /\ is_debating /\ call # <<>>
    /\ current_round_start > 0
    /\ Len(chat_history) > current_round_start + 1
    /\ call[1].prompt_text = SENTINEL

\* C16: counting the assistant turns of the whole transcript from 0, the
\* i-th is under the name of persona A when i is even and of persona B when
\* i is odd, so two assistant turns that follow each other (with or without
\* user turns between them) are never by the same persona.
C16_GlobalAlternation ==
    /\ persona_a_name # persona_b_name
    /\ \A k \in 1..Len(chat_history) :
          chat_history[k].role = "assistant"
          => chat_history[k].name =
               IF Cardinality({j \in 1..(k - 1) :
                                 chat_history[j].role = "assistant"}) % 2 = 0
               THEN persona_a_name ELSE persona_b_name

\* An opinion sits between a turn of A (before an interrupt) and a turn of
\* B (after the resume).
C16_Witness ==
    \E k \in 2..(Len(chat_history) - 1) :
        /\ chat_history[k].role = "user"
        /\ chat_history[k - 1].role = "assistant"
        /\ chat_history[k - 1].name = persona_a_name
        /\ chat_history[k + 1].name = persona_b_name

\* C14: with the debate page re-run again and again (weak fairness of the
\* step) and max_rounds left alone during the debate, every Debating state
\* is eventually followed by Finished, whatever the backend calls return.
C14_DebatingLeadsToFinished ==
    is_debating ~> (debate_finished /\ ~is_debating)

\* A resumed round in which every backend call failed ran to its end.
C14_Witness ==
    /\ event.op = "finish"
    /\ debate_finished
    /\ current_round_start > 0
    /\ Len(chat_history) = current_round_start + 1 + 2 * max_rounds
    /\ \A k \in (current_round_start + 2)..Len(chat_history) :
          chat_history[k].content = SENTINEL
====
